---- MODULE Spec2Model ----
(***************************************************************************)
(* A model of app.py: the relay between chat events and assistant runs.    *)
(*                                                                         *)
(* process_with_assistant is run by one listener thread per admitted       *)
(* event.  Each thread is a task of the model; its position in the         *)
(* function is pc[t], and a step of the model is the code between two      *)
(* calls into a collaborator (chat post/edit, session create, message      *)
(* append, run start/retrieve/cancel, message list) or two accesses of the *)
(* shared dictionary slack_thread_to_openai_thread.  Every collaborator    *)
(* call may succeed or raise.                                              *)
(***************************************************************************)
EXTENDS Integers, Sequences, FiniteSets, TLC

(***************************************************************************)
(* Program constants and bounds of the model.                              *)
(***************************************************************************)
POLLING_INTERVAL_S == 2

RUN_TIMEOUT_S == 120

\* Seconds that one status retrieval (and the scheduling of the thread) adds
\* to POLLING_INTERVAL_S in each iteration of the poll loop.
PollLatency == 118

\* Number of events admitted over the life of the process.
MaxRequests == 2

Tasks == {"t1", "t2"}

Keys == {"T100", "T200"}

\* the order in which threads and keys are taken into use
Rank(x) ==
    CASE x \in {"t1", "T100"} -> 1
      [] x \in {"t2", "T200"} -> 2

None == 0

PendingStatuses == {"queued", "in_progress", "cancelling"}

TerminalStatuses == {"completed", "requires_action", "failed", "cancelled", "expired"}

RunStatuses == PendingStatuses \cup TerminalStatuses

\* run.last_error: absent, or an error whose code is reported.
LastErrors(status) ==
    IF status \in {"failed", "cancelled", "expired"}
    THEN {"", "server_error"}
    ELSE {""}

\* What a call of say / chat_update can do.
ChatResults == {"ok", "SlackApiError", "Exception"}

\* What the call of say for the placeholder can do: "notok" is a response
\* without ok, which carries no usable ts.
ThinkingResults == {"ok", "notok", "SlackApiError", "Exception"}

\* What a call into the assistant platform can do.
OpenAIResults == {"ok", "OpenAIError"}

(***************************************************************************)
(* Texts written into the chat thread.                                     *)
(***************************************************************************)
Text(kind, detail) == [kind |-> kind, detail |-> detail]

NoText == Text("none", <<>>)

ThinkingText == Text("thinking", <<>>)

ConfigErrorText == Text("config_error", <<>>)

RequiresActionText == Text("requires_action", <<>>)

ApiErrorText == Text("api_error", <<>>)

TimedOutText == Text("timed_out", <<>>)

UnexpectedText == Text("unexpected", <<>>)

NoResponseText == Text("completed", <<"no_text_response">>)

TextBlock(v) == [type |-> "text", value |-> v]

ImageBlock == [type |-> "image_file", value |-> "img"]

Message(run_id, role, content) == [run_id |-> run_id, role |-> role, content |-> content]

\* run.id of the run a request starts, and the id of any other run of the session
RunIds == {"run_of_request", "run_of_other_request"}

OtherRun(rid) == CHOOSE other \in RunIds : other # rid

\* messages.list(order="desc"): session histories, newest message first, as
\* seen by the run with identifier rid.
Histories(rid) ==
    { <<>>,
      << Message("none", "user", <<TextBlock("q")>>) >>,
      << Message(rid, "user", <<TextBlock("q")>>) >>,
      << Message(OtherRun(rid), "assistant", <<TextBlock("old")>>) >>,
      << Message(rid, "assistant", <<ImageBlock>>) >>,
      << Message(rid, "assistant", <<TextBlock("b")>>),
         Message(rid, "assistant", <<ImageBlock, TextBlock("a")>>),
         Message("none", "user", <<TextBlock("q")>>),
         Message(OtherRun(rid), "assistant", <<TextBlock("old")>>) >> }

RECURSIVE SelectMsgs(_, _)
\* [m for m in messages_response.data if m.run_id == run.id and m.role == "assistant"]
SelectMsgs(data, rid) ==
    IF data = <<>> THEN <<>>
    ELSE LET m == Head(data)
             rest == SelectMsgs(Tail(data), rid)
         IN IF m.run_id = rid /\ m.role = "assistant" THEN <<m>> \o rest ELSE rest

\* Faulty variant: the selected messages are joined newest first, as listed
Reversed_AsListed(s) == s

RECURSIVE Reversed(_)
\* reversed(assistant_messages)
Reversed(s) == IF s = <<>> THEN <<>> ELSE Reversed(Tail(s)) \o <<Head(s)>>

RECURSIVE TextValues(_)
\* the values of the text-typed blocks of one message's content, in order
TextValues(content) ==
    IF content = <<>> THEN <<>>
    ELSE LET b == Head(content)
         IN (IF b.type = "text" THEN <<b.value>> ELSE <<>>) \o TextValues(Tail(content))

RECURSIVE JoinMsgs(_)
JoinMsgs(msgs) ==
    IF msgs = <<>> THEN <<>>
    ELSE TextValues(Head(msgs).content) \o JoinMsgs(Tail(msgs))

\* ai_response of a completed run
AiResponse(data, rid) ==
    LET assistant_messages == SelectMsgs(data, rid)
    IN IF assistant_messages = <<>>
       THEN NoResponseText
       ELSE Text("completed", JoinMsgs(Reversed(assistant_messages)))

\* error_details of a run that ended failed, cancelled or expired
ErrorDetails(r) ==
    IF r.last_error # ""
    THEN Text("run_failed", <<r.last_error>>)
    ELSE Text("ended_with_status", <<r.status>>)

NoRun == [id |-> "none", status |-> "none", last_error |-> ""]

(***************************************************************************)
(* Chat events and their texts.                                            *)
(***************************************************************************)
\* None where the other values are strings: a key the event does not carry,
\* the user id that auth.test did not give
NoneStr == "None"

\* Longest text of an event, in characters.
MaxTextLen == 2

\* A text is a sequence of characters: white space, "@" for the mention
\* <@B> of the bot, and "w" for any other run of characters.
Chars == {" ", "@", "w"}

Texts ==
    UNION { [1..n -> Chars] : n \in 0..MaxTextLen }
      \cup { <<" ", "@", " ", "w", " ">>, <<"w", " ", "@">> }

RECURSIVE LStrip(_)
LStrip(s) == IF s # <<>> /\ Head(s) = " " THEN LStrip(Tail(s)) ELSE s

RECURSIVE RStrip(_)
RStrip(s) == IF s # <<>> /\ s[Len(s)] = " " THEN RStrip(SubSeq(s, 1, Len(s) - 1)) ELSE s

\* str.strip()
Strip(s) == RStrip(LStrip(s))

\* text.startswith(f"<@{bot_user_id}>"): "@" is the mention of user B only
StartsWithMention(s, bot_user_id) == bot_user_id = "B" /\ s # <<>> /\ Head(s) = "@"

\* re.sub(rf"^\s*<@{bot_user_id}>\s*", '', text): the text itself when the
\* pattern does not match at its start
SubLeadingMention(s, bot_user_id) ==
    IF StartsWithMention(LStrip(s), bot_user_id) THEN LStrip(Tail(LStrip(s))) ELSE s

\* Faulty variant: every mention is removed, wherever it stands
clean_mention_Everywhere(s, bot_user_id) ==
    Strip(SelectSeq(s, LAMBDA c : c # "@"))

clean_mention(s, bot_user_id) ==
    IF bot_user_id # NoneStr
    THEN Strip(SubLeadingMention(s, bot_user_id))
    ELSE Strip(s)

\* The events of type message: the keys the handler reads.  A key the event
\* does not carry has the value NoneStr; .get("text", "") reads a missing
\* text as the empty text.
MessageEvents ==
    [ subtype : {NoneStr, "thread_broadcast", "message_changed"},
      user : {"U1", "B", NoneStr},
      bot_id : {NoneStr, "B0T"},
      channel_type : {"channel", "group", "im", "mpim", "app_home", NoneStr},
      text : Texts,
      ts : Keys,
      thread_ts : Keys \cup {NoneStr} ]

\* The events of type app_mention carry no subtype, bot_id or channel_type.
MentionEvents ==
    [ subtype : {NoneStr},
      user : {"U1", "B", NoneStr},
      bot_id : {NoneStr},
      channel_type : {NoneStr},
      text : Texts,
      ts : Keys,
      thread_ts : Keys \cup {NoneStr} ]

\* Faulty variant: the key is always the event's own timestamp
ThreadKey_OwnTs(e) == e.ts

\* event.get("thread_ts", event.get("ts"))
ThreadKey(e) == IF e.thread_ts # NoneStr THEN e.thread_ts ELSE e.ts

SupportedChannelTypes == {"channel", "group", "im", "mpim"}

\* no event has been handled, or the event is no longer held by a handler
NoEvent == [entry |-> "none"]

\* the decision of a handler on event e: process_with_assistant was invoked
\* with prompt, or the handler returned before the invocation
Decision(entry, e, invoked, prompt) ==
    [entry |-> entry, event |-> e, invoked |-> invoked, prompt |-> prompt]

NoCalls ==
    [post |-> 0, edit |-> 0, create |-> 0, append |-> 0, run |-> 0,
     retrieve |-> 0, cancel |-> 0, list |-> 0]

VARIABLES
    configured,                     \* openai_client and OPENAI_ASSISTANT_ID are set
    slack_thread_to_openai_thread,  \* the conversation map; None = no entry
    sessions,                       \* sessions created so far (the last SessionId)
    admitted,                       \* events admitted so far
    pc,                             \* position of each task
    slack_thread_ts,                \* conversation key of the task's request
    thinking_message_ts,            \* handle of the placeholder, or None
    openai_thread_id,               \* local SessionId of the task
    run,                            \* local run object of the task
    elapsed,                        \* time.time() - start_time
    text,                           \* ai_response / error_message / error_details
    thread,                         \* messages of the request visible in the thread
    calls,                          \* collaborator calls made by the request
    appended_to,                    \* session the request appended its message to
    create_calls,                   \* session-creation calls made for each key
    messages_response,              \* messages_response.data of the task, newest first
    BOT_USER_ID,                    \* the user id auth.test returned, or NoneStr
    handled                         \* the event a handler decided last, and its decision

vars ==
    <<configured, slack_thread_to_openai_thread, sessions, admitted, pc,
      slack_thread_ts, thinking_message_ts, openai_thread_id, run, elapsed, text,
      thread, calls, appended_to, create_calls, messages_response, BOT_USER_ID,
      handled>>

handler == <<BOT_USER_ID, handled>>

shared == <<configured, slack_thread_to_openai_thread, sessions, admitted, create_calls>>

\* the state of the module once it is loaded, but for BOT_USER_ID
Loaded ==
    /\ handled = NoEvent
    /\ configured \in BOOLEAN
    /\ slack_thread_to_openai_thread = [k \in Keys |-> None]
    /\ sessions = 0
    /\ admitted = 0
    /\ pc = [t \in Tasks |-> "idle"]
    /\ slack_thread_ts = [t \in Tasks |-> CHOOSE k \in Keys : TRUE]
    /\ thinking_message_ts = [t \in Tasks |-> None]
    /\ openai_thread_id = [t \in Tasks |-> None]
    /\ run = [t \in Tasks |-> NoRun]
    /\ elapsed = [t \in Tasks |-> 0]
    /\ text = [t \in Tasks |-> NoText]
    /\ thread = [t \in Tasks |-> <<>>]
    /\ calls = [t \in Tasks |-> NoCalls]
    /\ appended_to = [t \in Tasks |-> None]
    /\ create_calls = [k \in Keys |-> 0]
    /\ messages_response = [t \in Tasks |-> <<>>]

\* auth.test gave the user id of the bot
Init == Loaded /\ BOT_USER_ID = "B"

\* auth.test gave the user id of the bot, or failed
InitRouter == Loaded /\ BOT_USER_ID \in {"B", NoneStr}

\* process_with_assistant has returned ("done"), or an exception has left it
\* ("escaped")
Returned(t) == pc[t] \in {"done", "escaped"}

\* Faulty variant: a thread that waits in the poll loop holds up every other
\* thread (one listener serves all events)
At_HeldUpByPoll(t, where) ==
    /\ pc[t] = where
    /\ \A u \in Tasks : ~Returned(u)
    /\ \A u \in Tasks \ {t} : pc[u] # "poll"

\* The end of a thread touches nothing another thread reads, so it is taken
\* before any other step: a task is at a position of the function only while
\* no ended thread waits to be cleared.
At(t, where) == pc[t] = where /\ \A u \in Tasks : ~Returned(u)

Called(t, what) == calls' = [calls EXCEPT ![t][what] = @ + 1]

Goto(t, where) == pc' = [pc EXCEPT ![t] = where]

\* An exception raised inside the try block: the except clause that matches it.
HandlerOf(exception) ==
    CASE exception = "OpenAIError" -> "except_openai"
      [] exception = "TimeoutError" -> "except_timeout"
      [] exception = "SlackApiError" -> "done"
      [] OTHER -> "except_other"

HandlerText(exception) ==
    CASE exception = "OpenAIError" -> ApiErrorText
      [] exception = "TimeoutError" -> TimedOutText
      [] exception = "SlackApiError" -> NoText
      [] OTHER -> UnexpectedText

\* raise inside the try block of process_with_assistant: the except clauses
\* set error_message and read neither run nor start_time
Raise(t, exception) ==
    /\ Goto(t, HandlerOf(exception))
    /\ text' = [text EXCEPT ![t] = IF exception = "SlackApiError" THEN @ ELSE HandlerText(exception)]
    /\ run' = [run EXCEPT ![t] = NoRun]
    /\ elapsed' = [elapsed EXCEPT ![t] = 0]

\* Faulty variant: the reply is always an edit, also when no placeholder was posted
Rendered_AlwaysEdits(t, txt) ==
    /\ thread' = IF thinking_message_ts[t] # None
                 THEN [thread EXCEPT ![t][thinking_message_ts[t]] = txt]
                 ELSE thread
    /\ Called(t, "edit")

\* if thinking_message_ts: chat_update(ts=thinking_message_ts, text=txt)
\* else: say(text=txt, thread_ts=slack_thread_ts)  -- a call that succeeds
Rendered(t, txt) ==
    IF thinking_message_ts[t] # None
    THEN /\ thread' = [thread EXCEPT ![t][thinking_message_ts[t]] = txt]
         /\ Called(t, "edit")
    ELSE /\ thread' = [thread EXCEPT ![t] = Append(@, txt)]
         /\ Called(t, "post")

\* the same call, raising
RenderFailed(t) ==
    /\ thread' = thread
    /\ Called(t, IF thinking_message_ts[t] # None THEN "edit" ELSE "post")


(***************************************************************************)
(* The event handlers hand an admitted event to process_with_assistant.    *)
(***************************************************************************)
\* no other event is being processed
Alone(t) == \A u \in Tasks \ {t} : pc[u] = "idle"

\* Listener threads are interchangeable: an event is taken by the first idle one.
FirstIdle(t) == \A u \in Tasks : pc[u] = "idle" => Rank(t) <= Rank(u)

\* Conversation keys are opaque: they are named in the order of their first
\* appearance, so the first event of the process carries the first key.
KnownOrNext(k) == admitted = 0 => \A j \in Keys : Rank(k) <= Rank(j)

\* process_with_assistant(prompt, slack_thread_ts, ...) is entered; the
\* configuration test of its first line is taken at once.  What the handler
\* that makes the call keeps of its event is left to the handler.
Admit(t, k) ==
    /\ At(t, "idle")
    /\ admitted < MaxRequests
    /\ FirstIdle(t)
    /\ KnownOrNext(k)
    /\ admitted' = admitted + 1
    /\ slack_thread_ts' = [slack_thread_ts EXCEPT ![t] = k]
    /\ Goto(t, IF configured THEN "thinking" ELSE "config_error")
    /\ UNCHANGED <<BOT_USER_ID, messages_response, configured, slack_thread_to_openai_thread,
                   sessions, create_calls, thinking_message_ts, openai_thread_id, run, elapsed, text, thread, calls,
                   appended_to>>

\* the handler returns before it invokes process_with_assistant
Ignore(entry, e) ==
    /\ handled' = Decision(entry, e, FALSE, <<>>)
    /\ UNCHANGED <<BOT_USER_ID, shared, pc, slack_thread_ts, thinking_message_ts,
                   openai_thread_id, run, elapsed, text, thread, calls, appended_to,
                   messages_response>>

\* the handler invokes process_with_assistant(prompt, slack_thread_ts, ...)
Invoke(t, entry, e, prompt) ==
    /\ handled' = Decision(entry, e, TRUE, prompt)
    /\ Admit(t, ThreadKey(e))

\* the handler that returned early is left, and its event with it
HandlerReturns ==
    /\ handled # NoEvent
    /\ ~handled.invoked
    /\ handled' = NoEvent
    /\ UNCHANGED <<BOT_USER_ID, shared, pc, slack_thread_ts, thinking_message_ts,
                   openai_thread_id, run, elapsed, text, thread, calls, appended_to,
                   messages_response>>

\* The events are taken one at a time, by the first idle listener thread.
Listening(t) ==
    /\ handled = NoEvent
    /\ At(t, "idle")
    /\ Alone(t)
    /\ FirstIdle(t)
    /\ admitted < MaxRequests

\* the early return of handle_mention_assistant on event e
MentionIgnored(e, bot_user_id) ==
    \/ bot_user_id = NoneStr
    \/ clean_mention(e.text, bot_user_id) = <<>>

\* @app.event("app_mention")
handle_mention_assistant(t, e) ==
    IF MentionIgnored(e, BOT_USER_ID)
    THEN Ignore("app_mention", e)
    ELSE Invoke(t, "app_mention", e, clean_mention(e.text, BOT_USER_ID))

\* Faulty variant: the subtype test lets every subtype through
SubtypeIgnored_Never(e) == FALSE

\* subtype is not None and subtype != "thread_broadcast"
SubtypeIgnored(e) == e.subtype # NoneStr /\ e.subtype # "thread_broadcast"

\* message.get("user") == BOT_USER_ID or message.get("bot_id")
FromBot(e, bot_user_id) == e.user = bot_user_id \/ e.bot_id # NoneStr

\* the early returns of handle_message_events on event e, in their order
MessageIgnored(e, bot_user_id) ==
    \/ SubtypeIgnored(e)
    \/ FromBot(e, bot_user_id)
    \/ StartsWithMention(Strip(e.text), bot_user_id)
    \/ e.channel_type \notin SupportedChannelTypes
    \/ e.text = <<>>
    \/ e.user = NoneStr

\* @app.event("message"): the prompt is the text of the event as it is
handle_message_events(t, e) ==
    IF MessageIgnored(e, BOT_USER_ID)
    THEN Ignore("message", e)
    ELSE Invoke(t, "message", e, e.text)

\* not configured: say(the configuration error); only SlackApiError is caught.
\* The handler that made the call does not read its event again.
ReportConfigError(t) ==
    /\ At(t, "config_error")
    /\ handled' = NoEvent
    /\ \E result \in ChatResults :
         /\ Called(t, "post")
         /\ thread' = [thread EXCEPT ![t] = IF result = "ok" THEN Append(@, ConfigErrorText) ELSE @]
         /\ text' = [text EXCEPT ![t] = ConfigErrorText]
         /\ Goto(t, IF result = "Exception" THEN "escaped" ELSE "done")
    /\ UNCHANGED <<BOT_USER_ID, messages_response, shared, slack_thread_ts, thinking_message_ts,
                   openai_thread_id, run, elapsed, appended_to>>

\* thinking_message_ts after the placeholder post returned `result`
ThinkingHandle(t, result) == IF result = "ok" THEN Len(thread[t]) + 1 ELSE None

\* say(the placeholder); every exception is caught and logged.  The handler
\* that made the call does not read its event again.
PostThinking(t) ==
    /\ At(t, "thinking")
    /\ handled' = NoEvent
    /\ \E result \in ThinkingResults :
         /\ Called(t, "post")
         /\ thread' = [thread EXCEPT ![t] = IF result = "ok" THEN Append(@, ThinkingText) ELSE @]
         /\ thinking_message_ts' = [thinking_message_ts EXCEPT ![t] = ThinkingHandle(t, result)]
    /\ Goto(t, "resolve")
    /\ UNCHANGED <<BOT_USER_ID, messages_response, shared, slack_thread_ts, openai_thread_id, run,
                   elapsed, text, appended_to>>

\* Faulty variant: the membership test never finds the entry
InMap_NeverFound(k) == FALSE

\* slack_thread_ts in slack_thread_to_openai_thread
InMap(k) == slack_thread_to_openai_thread[k] # None

\* 1. the membership test, and the read of the entry when there is one
ResolveThread(t) ==
    /\ At(t, "resolve")
    /\ IF InMap(slack_thread_ts[t])
       THEN /\ openai_thread_id' =
                 [openai_thread_id EXCEPT ![t] = slack_thread_to_openai_thread[slack_thread_ts[t]]]
            /\ Goto(t, "append")
       ELSE /\ openai_thread_id' = openai_thread_id
            /\ Goto(t, "create")
    /\ UNCHANGED <<handler, messages_response, shared, slack_thread_ts, thinking_message_ts, run, elapsed, text, thread,
                   calls, appended_to>>

\* thread = openai_client.beta.threads.create(); openai_thread_id = thread.id
CreateThread(t) ==
    /\ At(t, "create")
    /\ Called(t, "create")
    /\ create_calls' = [create_calls EXCEPT ![slack_thread_ts[t]] = @ + 1]
    /\ \E result \in OpenAIResults :
         IF result = "ok"
         THEN /\ sessions' = sessions + 1
              /\ openai_thread_id' = [openai_thread_id EXCEPT ![t] = sessions + 1]
              /\ Goto(t, "store")
              /\ UNCHANGED <<text, run, elapsed>>
         ELSE /\ Raise(t, result)
              /\ UNCHANGED <<sessions, openai_thread_id>>
    /\ UNCHANGED <<handler, messages_response, configured, slack_thread_to_openai_thread, admitted, slack_thread_ts,
                   thinking_message_ts, thread, appended_to>>

\* Faulty variant: the SessionId is written under every key
StoreThread_EveryKey(t) ==
    /\ At(t, "store")
    /\ slack_thread_to_openai_thread' = [k \in Keys |-> openai_thread_id[t]]
    /\ Goto(t, "append")
    /\ UNCHANGED <<handler, messages_response, configured, sessions, admitted, create_calls,
                   slack_thread_ts, thinking_message_ts, openai_thread_id, run, elapsed, text,
                   thread, calls, appended_to>>

\* slack_thread_to_openai_thread[slack_thread_ts] = openai_thread_id
StoreThread(t) ==
    /\ At(t, "store")
    /\ slack_thread_to_openai_thread' =
         [slack_thread_to_openai_thread EXCEPT ![slack_thread_ts[t]] = openai_thread_id[t]]
    /\ Goto(t, "append")
    /\ UNCHANGED <<handler, messages_response, configured, sessions, admitted, create_calls, slack_thread_ts,
                   thinking_message_ts, openai_thread_id, run, elapsed, text, thread, calls,
                   appended_to>>

\* Faulty variant: a failed append is swallowed and the run is started all the same
AddMessage_ErrorIgnored(t) ==
    /\ At(t, "append")
    /\ Called(t, "append")
    /\ \E result \in OpenAIResults :
         appended_to' = [appended_to EXCEPT ![t] = IF result = "ok" THEN openai_thread_id[t] ELSE @]
    /\ Goto(t, "start_run")
    /\ UNCHANGED <<handler, messages_response, shared, slack_thread_ts, thinking_message_ts, openai_thread_id, run,
                   elapsed, text, thread>>

\* Faulty variant: a failed append takes the entry of the key out of the map
AddMessage_EntryDropped(t) ==
    /\ At(t, "append")
    /\ Called(t, "append")
    /\ \E result \in OpenAIResults :
         IF result = "ok"
         THEN /\ appended_to' = [appended_to EXCEPT ![t] = openai_thread_id[t]]
              /\ Goto(t, "start_run")
              /\ UNCHANGED <<text, run, elapsed, slack_thread_to_openai_thread>>
         ELSE /\ Raise(t, result)
              /\ appended_to' = appended_to
              /\ slack_thread_to_openai_thread' =
                   [slack_thread_to_openai_thread EXCEPT ![slack_thread_ts[t]] = None]
    /\ UNCHANGED <<handler, messages_response, configured, sessions, admitted, create_calls,
                   slack_thread_ts, thinking_message_ts, openai_thread_id, thread>>

\* 2. openai_client.beta.threads.messages.create(thread_id=openai_thread_id, role="user")
AddMessage(t) ==
    /\ At(t, "append")
    /\ Called(t, "append")
    /\ \E result \in OpenAIResults :
         IF result = "ok"
         THEN /\ appended_to' = [appended_to EXCEPT ![t] = openai_thread_id[t]]
              /\ Goto(t, "start_run")
              /\ UNCHANGED <<text, run, elapsed>>
         ELSE /\ Raise(t, result)
              /\ appended_to' = appended_to
    /\ UNCHANGED <<handler, messages_response, shared, slack_thread_ts, thinking_message_ts, openai_thread_id, thread>>

\* A run object as the platform returns it.
RunObjects(rid) ==
    { r \in [id : {rid}, status : RunStatuses, last_error : {"", "server_error"}] :
        r.last_error \in LastErrors(r.status) }

\* Faulty variant: "cancelling" is left out of the statuses the loop waits on
Pending_WithoutCancelling(r) == r.status \in {"queued", "in_progress"}

\* while run.status in ["queued", "in_progress", "cancelling"]
Pending(r) == r.status \in PendingStatuses

\* time.time() - start_time > RUN_TIMEOUT_S
TimedOut(t) == elapsed[t] > RUN_TIMEOUT_S

\* 5. the branch taken on the status that ended the loop
StatusBranch(status) ==
    CASE status = "completed" -> "list"
      [] status = "requires_action" -> "render"
      [] OTHER -> "render"

\* 5. the text the branch renders (for completed: set by ListMessages)
StatusText(r) ==
    CASE r.status = "completed" -> NoText
      [] r.status = "requires_action" -> RequiresActionText
      [] OTHER -> ErrorDetails(r)

\* The loop condition is evaluated on the run object r just received, `now`
\* seconds after start_time: the loop goes on, or the branch of the status
\* that ended it is entered.  start_time is not read once the loop is left,
\* so the elapsed time is kept only inside the loop.
LoopTest(t, r, now) ==
    /\ run' = [run EXCEPT ![t] = r]
    /\ IF Pending(r)
       THEN /\ Goto(t, "poll")
            /\ text' = text
            /\ elapsed' = [elapsed EXCEPT ![t] = now]
       ELSE /\ Goto(t, StatusBranch(r.status))
            /\ text' = [text EXCEPT ![t] = StatusText(r)]
            /\ elapsed' = [elapsed EXCEPT ![t] = 0]

\* 3. run = openai_client.beta.threads.runs.create(...); start_time = time.time()
CreateRun(t) ==
    /\ At(t, "start_run")
    /\ Called(t, "run")
    /\ \E result \in OpenAIResults :
         IF result = "ok"
         THEN \E r \in RunObjects("run_of_request") : LoopTest(t, r, 0)
         ELSE Raise(t, result)
    /\ UNCHANGED <<handler, messages_response, shared, slack_thread_ts, thinking_message_ts, openai_thread_id, thread,
                   appended_to>>

\* the exception that leaves the timeout branch when the cancel call returned `result`
CancelRaises(result) == IF result = "ok" THEN "TimeoutError" ELSE result

\* 4. the timeout branch: runs.cancel(...), then raise TimeoutError
CancelRun(t) ==
    /\ At(t, "poll")
    /\ TimedOut(t)
    /\ Called(t, "cancel")
    /\ \E result \in OpenAIResults : Raise(t, CancelRaises(result))
    /\ UNCHANGED <<handler, messages_response, shared, slack_thread_ts, thinking_message_ts, openai_thread_id, thread,
                   appended_to>>

\* 4. one iteration: time.sleep(POLLING_INTERVAL_S); run = runs.retrieve(...)
RetrieveRun(t) ==
    /\ At(t, "poll")
    /\ ~TimedOut(t)
    /\ Called(t, "retrieve")
    /\ \E result \in OpenAIResults :
         IF result = "ok"
         THEN \E r \in RunObjects(run[t].id) :
                  LoopTest(t, r, elapsed[t] + POLLING_INTERVAL_S + PollLatency)
         ELSE Raise(t, result)
    /\ UNCHANGED <<handler, messages_response, shared, slack_thread_ts, thinking_message_ts, openai_thread_id, thread,
                   appended_to>>

\* 6. messages.list(thread_id=openai_thread_id, order="desc") and ai_response
ListMessages(t) ==
    /\ At(t, "list")
    /\ Called(t, "list")
    /\ \E result \in OpenAIResults :
         IF result = "ok"
         THEN /\ \E data \in Histories(run[t].id) :
                   /\ messages_response' = [messages_response EXCEPT ![t] = data]
                   /\ text' = [text EXCEPT ![t] = AiResponse(data, run[t].id)]
              /\ Goto(t, "render")
              /\ UNCHANGED <<run, elapsed>>
         ELSE /\ Raise(t, result)
              /\ messages_response' = messages_response
    /\ UNCHANGED <<handler, shared, slack_thread_ts, thinking_message_ts, openai_thread_id, thread,
                   appended_to>>

\* 7. the reply of the try block: chat_update or say; an exception it raises
\* is handled by the except clauses of the same try.  messages_response is
\* not read after ai_response is built.
RenderReply(t) ==
    /\ At(t, "render")
    /\ messages_response' = [messages_response EXCEPT ![t] = <<>>]
    /\ \E result \in ChatResults :
         IF result = "ok"
         THEN /\ Rendered(t, text[t])
              /\ Goto(t, "done")
              /\ UNCHANGED <<text, run, elapsed>>
         ELSE /\ RenderFailed(t)
              /\ Raise(t, result)
    /\ UNCHANGED <<handler, shared, slack_thread_ts, thinking_message_ts, openai_thread_id, appended_to>>

\* where the reply inside `except OpenAIError` or `except TimeoutError` leaves
\* the task: no clause of the same try handles an exception it raises
HandlerEscape(result) == IF result = "ok" THEN "done" ELSE "escaped"

\* except OpenAIError / except TimeoutError: the reply with the error message
RenderError(t) ==
    /\ (At(t, "except_openai") \/ At(t, "except_timeout"))
    /\ \E result \in ChatResults :
         /\ IF result = "ok" THEN Rendered(t, text[t]) ELSE RenderFailed(t)
         /\ Goto(t, HandlerEscape(result))
    /\ UNCHANGED <<handler, messages_response, shared, slack_thread_ts, thinking_message_ts, openai_thread_id, run,
                   elapsed, text, appended_to>>

\* where the guarded reply of `except Exception` leaves the task: only
\* SlackApiError is caught
GuardedEscape(result) == IF result = "Exception" THEN "escaped" ELSE "done"

\* except Exception: the reply inside try ... except SlackApiError
RenderUnexpected(t) ==
    /\ At(t, "except_other")
    /\ \E result \in ChatResults :
         /\ IF result = "ok" THEN Rendered(t, text[t]) ELSE RenderFailed(t)
         /\ Goto(t, GuardedEscape(result))
    /\ UNCHANGED <<handler, messages_response, shared, slack_thread_ts, thinking_message_ts, openai_thread_id, run,
                   elapsed, text, appended_to>>

\* the listener thread ends and its locals are gone
Return(t) ==
    /\ Returned(t)
    /\ Goto(t, "idle")
    /\ thinking_message_ts' = [thinking_message_ts EXCEPT ![t] = None]
    /\ openai_thread_id' = [openai_thread_id EXCEPT ![t] = None]
    /\ run' = [run EXCEPT ![t] = NoRun]
    /\ elapsed' = [elapsed EXCEPT ![t] = 0]
    /\ text' = [text EXCEPT ![t] = NoText]
    /\ thread' = [thread EXCEPT ![t] = <<>>]
    /\ calls' = [calls EXCEPT ![t] = NoCalls]
    /\ appended_to' = [appended_to EXCEPT ![t] = None]
    /\ UNCHANGED <<handler, messages_response, shared, slack_thread_ts>>

\* listener threads run concurrently
Next ==
    \/ \E t \in Tasks, k \in Keys : Admit(t, k) /\ handled' = handled
    \/ \E t \in Tasks : ReportConfigError(t)
    \/ \E t \in Tasks : PostThinking(t)
    \/ \E t \in Tasks : ResolveThread(t)
    \/ \E t \in Tasks : CreateThread(t)
    \/ \E t \in Tasks : StoreThread(t)
    \/ \E t \in Tasks : AddMessage(t)
    \/ \E t \in Tasks : CreateRun(t)
    \/ \E t \in Tasks : CancelRun(t)
    \/ \E t \in Tasks : RetrieveRun(t)
    \/ \E t \in Tasks : ListMessages(t)
    \/ \E t \in Tasks : RenderReply(t)
    \/ \E t \in Tasks : RenderError(t)
    \/ \E t \in Tasks : RenderUnexpected(t)
    \/ \E t \in Tasks : Return(t)

Spec == Init /\ [][Next]_vars

\* one event is processed to its end before the next is admitted
NextSeq ==
    \/ \E t \in Tasks, k \in Keys : Alone(t) /\ Admit(t, k) /\ handled' = handled
    \/ \E t \in Tasks : Alone(t) /\ ReportConfigError(t)
    \/ \E t \in Tasks : Alone(t) /\ PostThinking(t)
    \/ \E t \in Tasks : Alone(t) /\ ResolveThread(t)
    \/ \E t \in Tasks : Alone(t) /\ CreateThread(t)
    \/ \E t \in Tasks : Alone(t) /\ StoreThread(t)
    \/ \E t \in Tasks : Alone(t) /\ AddMessage(t)
    \/ \E t \in Tasks : Alone(t) /\ CreateRun(t)
    \/ \E t \in Tasks : Alone(t) /\ CancelRun(t)
    \/ \E t \in Tasks : Alone(t) /\ RetrieveRun(t)
    \/ \E t \in Tasks : Alone(t) /\ ListMessages(t)
    \/ \E t \in Tasks : Alone(t) /\ RenderReply(t)
    \/ \E t \in Tasks : Alone(t) /\ RenderError(t)
    \/ \E t \in Tasks : Alone(t) /\ RenderUnexpected(t)
    \/ \E t \in Tasks : Alone(t) /\ Return(t)

SpecSeq == Init /\ [][NextSeq]_vars

\* the next step of the listener thread t that runs a request
Proceed(t) ==
    \/ ReportConfigError(t)
    \/ PostThinking(t)
    \/ ResolveThread(t)
    \/ CreateThread(t)
    \/ StoreThread(t)
    \/ AddMessage(t)
    \/ CreateRun(t)
    \/ CancelRun(t)
    \/ RetrieveRun(t)
    \/ ListMessages(t)
    \/ RenderReply(t)
    \/ RenderError(t)
    \/ RenderUnexpected(t)
    \/ Return(t)

\* Each listener thread takes one event, and the events are of different
\* conversations: the n-th event carries the n-th key.
AdmitApart(t, k) ==
    /\ admitted < Cardinality(Tasks)
    /\ Rank(k) = admitted + 1
    /\ Admit(t, k)
    /\ handled' = handled

\* requests of different conversations, in flight together
NextFair ==
    \/ \E t \in Tasks, k \in Keys : AdmitApart(t, k)
    \/ \E t \in Tasks : ReportConfigError(t)
    \/ \E t \in Tasks : PostThinking(t)
    \/ \E t \in Tasks : ResolveThread(t)
    \/ \E t \in Tasks : CreateThread(t)
    \/ \E t \in Tasks : StoreThread(t)
    \/ \E t \in Tasks : AddMessage(t)
    \/ \E t \in Tasks : CreateRun(t)
    \/ \E t \in Tasks : CancelRun(t)
    \/ \E t \in Tasks : RetrieveRun(t)
    \/ \E t \in Tasks : ListMessages(t)
    \/ \E t \in Tasks : RenderReply(t)
    \/ \E t \in Tasks : RenderError(t)
    \/ \E t \in Tasks : RenderUnexpected(t)
    \/ \E t \in Tasks : Return(t)

\* the listener threads run concurrently, and the scheduler lets every
\* thread that can take a step take one in the end
SpecFair == Init /\ [][NextFair]_vars /\ \A t \in Tasks : WF_vars(Proceed(t))

\* the events reach the two handlers, and each is processed to its end
\* before the next is taken
NextRouter ==
    \/ \E t \in Tasks :
         /\ Listening(t)
         /\ \E e \in MentionEvents : KnownOrNext(ThreadKey(e)) /\ handle_mention_assistant(t, e)
    \/ \E t \in Tasks :
         /\ Listening(t)
         /\ \E e \in MessageEvents : KnownOrNext(ThreadKey(e)) /\ handle_message_events(t, e)
    \/ HandlerReturns
    \/ \E t \in Tasks : Alone(t) /\ ReportConfigError(t)
    \/ \E t \in Tasks : Alone(t) /\ PostThinking(t)
    \/ \E t \in Tasks : Alone(t) /\ ResolveThread(t)
    \/ \E t \in Tasks : Alone(t) /\ CreateThread(t)
    \/ \E t \in Tasks : Alone(t) /\ StoreThread(t)
    \/ \E t \in Tasks : Alone(t) /\ AddMessage(t)
    \/ \E t \in Tasks : Alone(t) /\ CreateRun(t)
    \/ \E t \in Tasks : Alone(t) /\ CancelRun(t)
    \/ \E t \in Tasks : Alone(t) /\ RetrieveRun(t)
    \/ \E t \in Tasks : Alone(t) /\ ListMessages(t)
    \/ \E t \in Tasks : Alone(t) /\ RenderReply(t)
    \/ \E t \in Tasks : Alone(t) /\ RenderError(t)
    \/ \E t \in Tasks : Alone(t) /\ RenderUnexpected(t)
    \/ \E t \in Tasks : Alone(t) /\ Return(t)

SpecRouter == InitRouter /\ [][NextRouter]_vars

(***************************************************************************)
(* Properties.                                                             *)
(***************************************************************************)
\* the request of task t has gone past the placeholder post
Underway(t) == configured /\ pc[t] \notin {"idle", "thinking", "config_error"}

\* C1: two requests in flight with the same conversation key, neither finding
\* a mapping, cause exactly one session-creation call, and both append their
\* user message to that one session.
C1_OneSessionForConcurrentRequests ==
    \A t, u \in Tasks :
        ( /\ t # u
          /\ Underway(t) /\ Underway(u)
          /\ slack_thread_ts[t] = slack_thread_ts[u]
          /\ appended_to[t] # None /\ appended_to[u] # None )
        => /\ appended_to[t] = appended_to[u]
           /\ create_calls[slack_thread_ts[t]] = 1

\* C2: an admitted request that has ended, unless both the placeholder post
\* and the final post failed, shows exactly one message in the thread, and it
\* carries the final outcome text (never the placeholder text).
C2_ExactlyOneFinalReply ==
    \A t \in Tasks :
        ( /\ configured
          /\ pc[t] = "done"
          /\ ~(thinking_message_ts[t] = None /\ thread[t] = <<>>) )
        => /\ Len(thread[t]) = 1
           /\ thread[t][1] # ThinkingText
           /\ thread[t][1] = text[t]

\* C3: no exception leaves process_with_assistant, whichever collaborator
\* calls fail.
C3_NoExceptionEscapes ==
    \A t \in Tasks : configured => pc[t] # "escaped"

\* C4: once the timeout branch has been taken the outcome is TimedOut, whether
\* the cancel call succeeded or failed.
C4_TimeoutGivesTimedOut ==
    \A t \in Tasks : calls[t].cancel > 0 => text[t] = TimedOutText

\* C5: a run that stays pending leaves the poll loop by the timeout branch:
\* one cancel call, no status retrieval after it, and the outcome TimedOut.
C5_PendingRunEndsTimedOut ==
    \A t \in Tasks :
        /\ calls[t].cancel <= 1
        /\ calls[t].cancel = 1 =>
             /\ pc[t] \in {"except_timeout", "done", "escaped"}
             /\ text[t].kind = "timed_out"
             /\ elapsed[t] = 0

\* C7: an entry of slack_thread_to_openai_thread, once written, is never
\* changed to another SessionId and never removed.
C7_EntriesNeverChange ==
    [][\A k \in Keys :
          slack_thread_to_openai_thread[k] # None
          => slack_thread_to_openai_thread'[k] = slack_thread_to_openai_thread[k]]_vars

\* C6 as stated: in a sequential execution every request that has ended
\* finds its key mapped, after exactly one session-creation call for the key.
C6_FirstRequestCreates ==
    \A t \in Tasks :
        (configured /\ Returned(t))
        => /\ slack_thread_to_openai_thread[slack_thread_ts[t]] # None
           /\ create_calls[slack_thread_ts[t]] = 1

\* C6 (amended): in a sequential execution exactly one session has been
\* created for every mapped key and none for the others; a creation call is
\* made only for a key that has no entry; and a request that has resolved its
\* session holds the SessionId stored under its key.
C6_OneSessionPerKeySequential ==
    /\ sessions = Cardinality({k \in Keys : slack_thread_to_openai_thread[k] # None})
                  + Cardinality({t \in Tasks : pc[t] = "store"})
    /\ \A t \in Tasks :
         /\ pc[t] = "create" => slack_thread_to_openai_thread[slack_thread_ts[t]] = None
         /\ (openai_thread_id[t] # None /\ pc[t] # "store")
              => openai_thread_id[t] = slack_thread_to_openai_thread[slack_thread_ts[t]]
         /\ appended_to[t] # None
              => appended_to[t] = slack_thread_to_openai_thread[slack_thread_ts[t]]

\* a later request for a mapped key appended to the stored session without
\* any creation call of its own
C6_Witness ==
    \E t \in Tasks :
        /\ Underway(t)
        /\ calls[t].create = 0
        /\ appended_to[t] # None
        /\ appended_to[t] = slack_thread_to_openai_thread[slack_thread_ts[t]]

AppendFailed(t) == calls[t].append = 1 /\ appended_to[t] = None /\ pc[t] # "append"

\* C9: the steps of a request are ordered resolve, append, start, poll: a run
\* is started only after the append succeeded, and after a failed append no
\* run is started, no status is retrieved, no message is listed and the reply
\* is the API-error text.
C9_AppendBeforeRun ==
    \A t \in Tasks :
        /\ calls[t].append > 0 => openai_thread_id[t] # None
        /\ calls[t].run > 0 => (calls[t].append = 1 /\ appended_to[t] = openai_thread_id[t])
        /\ run[t] # NoRun => calls[t].run = 1
        /\ calls[t].retrieve + calls[t].cancel + calls[t].list > 0 => calls[t].run = 1
        /\ AppendFailed(t) =>
             /\ calls[t].run = 0
             /\ calls[t].retrieve = 0
             /\ calls[t].list = 0
             /\ run[t] = NoRun
             /\ text[t] = ApiErrorText
             /\ pc[t] \in {"except_openai", "done", "escaped"}

\* the append failed and the request is in the handler of the API error
C9_Witness ==
    \E t \in Tasks :
        /\ pc[t] = "except_openai"
        /\ calls[t].append = 1
        /\ appended_to[t] = None
        /\ openai_thread_id[t] # None

\* C10: the loop is left exactly when the status is not pending (or by the
\* timeout), and the status that ended it decides the outcome: completed gives
\* the assistant text, requires_action the fixed apology, and failed,
\* cancelled and expired the error details (code when present, else status).
C10_StatusDecidesOutcome ==
    \A t \in Tasks :
        /\ pc[t] = "poll" => run[t].status \in PendingStatuses
        /\ (At(t, "poll") /\ elapsed[t] <= RUN_TIMEOUT_S) => ENABLED RetrieveRun(t)
        /\ (At(t, "poll") /\ elapsed[t] > RUN_TIMEOUT_S) => ~ENABLED RetrieveRun(t)
        /\ pc[t] = "list" => run[t].status = "completed"
        /\ (pc[t] \in {"render", "done"} /\ run[t] # NoRun) =>
             CASE run[t].status = "completed" -> text[t].kind = "completed"
               [] run[t].status = "requires_action" -> text[t] = RequiresActionText
               [] run[t].status \in {"failed", "cancelled", "expired"} ->
                    IF run[t].last_error # ""
                    THEN text[t] = Text("run_failed", <<run[t].last_error>>)
                    ELSE text[t] = Text("ended_with_status", <<run[t].status>>)
               [] OTHER -> FALSE

\* a run retrieved as failed with an error code is about to be rendered
C10_Witness ==
    \E t \in Tasks :
        /\ pc[t] = "render"
        /\ calls[t].retrieve > 0
        /\ run[t].status = "failed"
        /\ run[t].last_error = "server_error"
        /\ text[t] = Text("run_failed", <<"server_error">>)

\* the values of the text-typed blocks of a message content, in order
TextOf(content) ==
    LET texts == SelectSeq(content, LAMBDA b : b.type = "text")
    IN [i \in 1..Len(texts) |-> texts[i].value]

RECURSIVE OldestFirst(_, _, _)
\* the text of the assistant messages of run rid among data[1..i], where data
\* lists the newest message first: the message at i is the oldest of them
OldestFirst(data, rid, i) ==
    IF i = 0 THEN <<>>
    ELSE (IF data[i].role = "assistant" /\ data[i].run_id = rid
          THEN TextOf(data[i].content)
          ELSE <<>>) \o OldestFirst(data, rid, i - 1)

\* C11: for a completed run the Completed text is made only of the text-typed
\* blocks of the assistant-authored messages of this run, oldest message
\* first; when the history holds no assistant message of this run the text is
\* the fixed fallback string.
C11_CompletedTextFromOwnRun ==
    \A t \in Tasks :
        (pc[t] = "render" /\ run[t].status = "completed") =>
            LET data == messages_response[t]
                rid == run[t].id
            IN IF \E i \in DOMAIN data : data[i].role = "assistant" /\ data[i].run_id = rid
               THEN text[t] = Text("completed", OldestFirst(data, rid, Len(data)))
               ELSE text[t] = NoResponseText

\* a history with two assistant messages of this run, an image block, a user
\* message and an assistant message of another run has been listed
C11_Witness ==
    \E t \in Tasks :
        /\ pc[t] = "render"
        /\ run[t].status = "completed"
        /\ Len(messages_response[t]) = 4
        /\ text[t] = Text("completed", <<"a", "b">>)

\* a step of the model leaves every listener thread, the chat threads, the
\* collaborator calls and the conversation map as they are
NothingDone ==
    UNCHANGED <<pc, admitted, slack_thread_ts, thinking_message_ts, openai_thread_id, run,
                elapsed, text, thread, calls, appended_to, messages_response,
                slack_thread_to_openai_thread, sessions, create_calls>>

\* C12: a message event is rejected -- process_with_assistant is not invoked,
\* nothing is posted and the conversation map is not changed -- whenever its
\* subtype is other than thread_broadcast, its sender is the bot itself or it
\* carries the bot-origin flag, its channel type is none of channel, group,
\* im, mpim, or its text or its sender id is missing.
C12_MessageEventRejected ==
    [][ ( /\ handled = NoEvent
          /\ handled' # NoEvent
          /\ handled'.entry = "message"
          /\ LET e == handled'.event
             IN \/ e.subtype \notin {NoneStr, "thread_broadcast"}
                \/ (BOT_USER_ID # NoneStr /\ e.user = BOT_USER_ID)
                \/ e.bot_id # NoneStr
                \/ e.channel_type \notin {"channel", "group", "im", "mpim"}
                \/ e.text = <<>>
                \/ e.user = NoneStr )
        => (~handled'.invoked /\ NothingDone) ]_vars

\* an edited message of a user in a channel was rejected after an earlier
\* request had stored a session
C12_Witness ==
    /\ handled # NoEvent
    /\ handled.entry = "message"
    /\ ~handled.invoked
    /\ handled.event.subtype = "message_changed"
    /\ handled.event.user = "U1"
    /\ handled.event.bot_id = NoneStr
    /\ handled.event.channel_type = "channel"
    /\ handled.event.text = <<"w">>
    /\ slack_thread_to_openai_thread["T100"] # None
    /\ \A t \in Tasks : pc[t] = "idle"

\* the positions of s that hold something other than white space
Inked(s) == { i \in 1..Len(s) : s[i] # " " }

\* s without the white space at its two ends
Trimmed(s) ==
    IF Inked(s) = {} THEN <<>>
    ELSE LET lo == CHOOSE i \in Inked(s) : \A j \in Inked(s) : i <= j
             hi == CHOOSE i \in Inked(s) : \A j \in Inked(s) : j <= i
         IN SubSeq(s, lo, hi)

\* s without the self-mention that leads it (white space may come first)
WithoutLeadingMention(s) ==
    IF \E i \in Inked(s) : s[i] = "@" /\ \A j \in Inked(s) : i <= j
    THEN LET i == CHOOSE k \in Inked(s) : \A j \in Inked(s) : k <= j
         IN SubSeq(s, i + 1, Len(s))
    ELSE s

\* C13: a mention event does nothing when the bot's own id is unknown or when
\* the text, after the leading self-mention is removed and the rest trimmed,
\* is empty; otherwise process_with_assistant is invoked exactly once, with
\* that normalized text as the prompt.
C13_MentionEventNormalized ==
    [][ ( /\ handled = NoEvent
          /\ handled' # NoEvent
          /\ handled'.entry = "app_mention" )
        => LET e == handled'.event
               normalized == Trimmed(WithoutLeadingMention(e.text))
           IN IF BOT_USER_ID = NoneStr \/ normalized = <<>>
              THEN ~handled'.invoked /\ NothingDone
              ELSE /\ handled'.invoked
                   /\ handled'.prompt = normalized
                   /\ admitted' = admitted + 1
                   /\ \E t \in Tasks :
                        /\ pc[t] = "idle" /\ pc'[t] \in {"thinking", "config_error"}
                        /\ slack_thread_ts'[t] \in {e.thread_ts, e.ts}
                        /\ \A u \in Tasks \ {t} : pc'[u] = pc[u] ]_vars

\* a mention led by white space and followed by a word was handed on as the
\* word alone
C13_Witness ==
    /\ handled # NoEvent
    /\ handled.entry = "app_mention"
    /\ handled.invoked
    /\ handled.event.text = <<" ", "@", " ", "w", " ">>
    /\ handled.prompt = <<"w">>
    /\ \E t \in Tasks : pc[t] = "thinking"

\* C14: the conversation key of an event is its thread identifier when it
\* carries one and its own timestamp otherwise, so a top-level message with
\* timestamp T and the later replies in thread T have the same key; processed
\* one after another they use the same session: the entry of a key, once
\* stored, is never changed, a session is created only for a key without
\* entry, and every request appends to the session stored under its key.
C14_ThreadKeyAndSession ==
    /\ [] ( (handled # NoEvent /\ handled.invoked) =>
              \E t \in Tasks :
                  /\ pc[t] \in {"thinking", "config_error"}
                  /\ slack_thread_ts[t] = IF handled.event.thread_ts # NoneStr
                                           THEN handled.event.thread_ts
                                           ELSE handled.event.ts )
    /\ [] ( \A t \in Tasks :
              calls[t].run > 0
                  => appended_to[t] = slack_thread_to_openai_thread[slack_thread_ts[t]] )
    /\ [][ /\ \A k \in Keys :
               slack_thread_to_openai_thread[k] # None
                   => slack_thread_to_openai_thread'[k] = slack_thread_to_openai_thread[k]
           /\ sessions' # sessions =>
                \E t \in Tasks :
                    /\ pc[t] = "create"
                    /\ slack_thread_to_openai_thread[slack_thread_ts[t]] = None
                    /\ sessions' = sessions + 1 ]_vars

\* a reply with timestamp T200 in thread T100 was handed on with key T100,
\* for which the one session created so far is stored
C14_Witness ==
    /\ handled # NoEvent
    /\ handled.invoked
    /\ handled.event.ts = "T200"
    /\ handled.event.thread_ts = "T100"
    /\ \E t \in Tasks : pc[t] = "thinking" /\ slack_thread_ts[t] = "T100"
    /\ slack_thread_to_openai_thread["T100"] = 1
    /\ sessions = 1
    /\ create_calls["T100"] = 1

\* C15: when the assistant client or the assistant id is not configured,
\* process_with_assistant posts the configuration-error message once, posts
\* no placeholder, makes no session-management call, leaves the conversation
\* map unchanged, and returns.
C15_UnconfiguredIsInert ==
    ~configured =>
        /\ slack_thread_to_openai_thread = [k \in Keys |-> None]
        /\ sessions = 0
        /\ \A k \in Keys : create_calls[k] = 0
        /\ \A t \in Tasks :
             /\ calls[t] \in {NoCalls, [NoCalls EXCEPT !.post = 1]}
             /\ thread[t] \in {<<>>, <<ConfigErrorText>>}
             /\ thinking_message_ts[t] = None
             /\ pc[t] \in {"idle", "config_error", "done"}
             /\ pc[t] = "done" => calls[t].post = 1

\* C16: the conversation map is injective in every reachable state, under
\* any interleaving of requests: no two keys hold the same SessionId.
C16_MapInjective ==
    \A j, k \in Keys :
        ( /\ j # k
          /\ slack_thread_to_openai_thread[j] # None
          /\ slack_thread_to_openai_thread[k] # None )
        => slack_thread_to_openai_thread[j] # slack_thread_to_openai_thread[k]

\* two requests in flight together have each stored a session for their key
C16_Witness ==
    /\ \A k \in Keys : slack_thread_to_openai_thread[k] # None
    /\ \A t \in Tasks : pc[t] = "append"

\* the text holds the self-mention, so the chat platform delivers the message
\* as an app_mention event too
Mentions(s) == \E i \in 1..Len(s) : s[i] = "@"

C18_MapWrittenOnlyAfterCreation ==
    [][ /\ slack_thread_to_openai_thread' # slack_thread_to_openai_thread =>
             \E t \in Tasks :
                 /\ pc[t] = "store" /\ pc'[t] = "append"
                 /\ calls[t].create = 1
                 /\ openai_thread_id[t] # None
                 /\ slack_thread_to_openai_thread' =
                      [slack_thread_to_openai_thread EXCEPT ![slack_thread_ts[t]] = openai_thread_id[t]]
        /\ \A t \in Tasks :
             /\ pc'[t] \in {"except_openai", "except_timeout", "except_other"} /\ pc[t] # pc'[t]
                  => slack_thread_to_openai_thread' = slack_thread_to_openai_thread
             /\ (pc[t] = "resolve" /\ pc'[t] # "resolve")
                  => (pc'[t] = "create" <=> slack_thread_to_openai_thread[slack_thread_ts[t]] = None)
             /\ (pc[t] = "create" /\ pc'[t] = "except_openai")
                  => openai_thread_id'[t] = None ]_vars

\* the append of a request failed and the entry of its key, stored by an
\* earlier request, is in place
C18_Witness ==
    \E t \in Tasks :
        /\ pc[t] = "except_openai"
        /\ calls[t].create = 0
        /\ calls[t].append = 1
        /\ appended_to[t] = None
        /\ slack_thread_to_openai_thread[slack_thread_ts[t]] = openai_thread_id[t]
        /\ openai_thread_id[t] # None

\* C19: a request that waits in its poll loop never blocks a concurrent
\* request: whenever one request is in the loop, the next step of every other
\* request can be taken, and a request for another key whose run was
\* retrieved as completed while the first is still pending goes on to its
\* end (its reply call made) under fair scheduling.
C19_PollDoesNotBlockOthers ==
    \A t \in Tasks : \A u \in Tasks \ {t} :
        /\ [] ( (pc[t] = "poll" /\ pc[u] # "idle") => ENABLED Proceed(u) )
        /\ ( /\ pc[t] = "poll"
             /\ pc[u] = "list"
             /\ slack_thread_ts[u] # slack_thread_ts[t] )
           ~> ( /\ Returned(u)
                /\ calls[u].post + calls[u].edit >= 2 )

\* a request has rendered the text of its completed run while the other
\* request, for another key, is still in its poll loop before the timeout
C19_Witness ==
    \E t \in Tasks : \E u \in Tasks \ {t} :
        /\ pc[t] = "poll"
        /\ elapsed[t] <= RUN_TIMEOUT_S
        /\ pc[u] = "done"
        /\ run[u].status = "completed"
        /\ slack_thread_ts[u] # slack_thread_ts[t]
        /\ thread[u] = <<text[u]>>

====
